---- MODULE Spec2Model ----
(***************************************************************************)
(* Model of the NetDimm client of netboot/netboot.py: the three public     *)
(* operations info, send and reboot, the session (__connection), the       *)
(* frame codec, the command layer and the upload pipeline.                 *)
(*                                                                         *)
(* Bytes are integers 0..255.  32-bit words are kept as their four         *)
(* little-endian bytes, which is the form struct.pack("<I", ...) puts on   *)
(* the wire.                                                               *)
(***************************************************************************)
EXTENDS Integers, Sequences, FiniteSets, TLC

(***************************************************************************)
(* Bounds.                                                                 *)
(***************************************************************************)
\* DES blocks per upload chunk.  The program slices 0x8000 bytes, that is
\* 4096 blocks of 8; the model scales the number of blocks per slice.
ChunkBlocks == 1

\* Highest call number on which a progress callback may raise.
MaxRaiseAt == 3

(***************************************************************************)
(* Byte and word arithmetic.                                               *)
(***************************************************************************)
Byte == 0..255

RECURSIVE Xor8(_, _)
Xor8(a, b) ==
    IF a = 0 THEN b
    ELSE IF b = 0 THEN a
    ELSE ((a + b) % 2) + 2 * Xor8(a \div 2, b \div 2)

Xor32(v, w) == [i \in 1..4 |-> Xor8(v[i], w[i])]

\* (~w) & 0xFFFFFFFF
Not32(w) == [i \in 1..4 |-> 255 - w[i]]

\* w >> 1 and w >> 8 on little-endian words
Shr1(w) == [i \in 1..4 |-> (w[i] \div 2) + (IF i < 4 THEN 128 * (w[i + 1] % 2) ELSE 0)]
Shr8(w) == <<w[2], w[3], w[4], 0>>

\* struct.pack("<I", n) and struct.pack("<H", n)
PackU32(n) == <<n % 256, (n \div 256) % 256, (n \div 65536) % 256, (n \div 16777216) % 256>>
PackU16(n) == <<n % 256, (n \div 256) % 256>>

\* struct.unpack of a little-endian field of a byte string
UnpackU16(s, off) == s[off + 1] + 256 * s[off + 2]
UnpackU32(s, off) == s[off + 1] + 256 * s[off + 2] + 65536 * s[off + 3] + 16777216 * s[off + 4]
Word(s, off) == <<s[off + 1], s[off + 2], s[off + 3], s[off + 4]>>

Zero32 == <<0, 0, 0, 0>>

\* bytes[::-1]
Reverse(s) == [i \in 1..Len(s) |-> s[Len(s) + 1 - i]]

(***************************************************************************)
(* zlib.crc32: the IEEE 802.3 CRC, reflected polynomial 0xEDB88320.        *)
(***************************************************************************)
CrcPoly == <<32, 131, 184, 237>>

CrcShift(w) == IF w[1] % 2 = 1 THEN Xor32(Shr1(w), CrcPoly) ELSE Shr1(w)

CrcTable ==
    [n \in Byte |->
        CrcShift(CrcShift(CrcShift(CrcShift(CrcShift(CrcShift(CrcShift(CrcShift(<<n, 0, 0, 0>>))))))))]

\* the shift register after the bytes s[i..Len(s)], from register reg
RECURSIVE CrcFeed(_, _, _)
CrcFeed(reg, s, i) ==
    IF i > Len(s) THEN reg
    ELSE CrcFeed(Xor32(CrcTable[Xor8(reg[1], s[i])], Shr8(reg)), s, i + 1)

\* crc32 that forgets the running value and starts every call afresh
crc32_Restarted(data, value) == Not32(CrcFeed(Not32(Zero32), data, 1))

\* zlib.crc32(data, value): the register is the complement of the running value
crc32(data, value) == Not32(CrcFeed(Not32(value), data, 1))

\* NetDimm.crc (the static method)
NetDimm_crc(data) == Not32(crc32(data, Zero32))

(***************************************************************************)
(* Frame codec.                                                            *)
(***************************************************************************)
NetDimmPacket(pktid, flags, data) == [pktid |-> pktid, flags |-> flags, data |-> data]

\* __send_packet with a length field of one byte
send_packet_Length8(packet) ==
    <<Len(packet.data) % 256, 0, packet.flags % 256, packet.pktid % 256>> \o packet.data

\* the bytes __send_packet hands to sock.send: the header word
\* (pktid & 0xFF) << 24 | (flags & 0xFF) << 16 | (length & 0xFFFF), little-endian,
\* followed by the payload
send_packet(packet) ==
    <<Len(packet.data) % 256, (Len(packet.data) \div 256) % 256,
      packet.flags % 256, packet.pktid % 256>> \o packet.data

\* What the device puts on the stream in answer to a request: the bytes it
\* sends, and what a recv finds once they are consumed ("timeout": nothing
\* arrives within the socket timeout and recv raises; "eof": the peer closed
\* the stream and recv returns b'').
Incoming(bytes, end) == [bytes |-> bytes, end |-> end]

\* __read(num) at offset off of the incoming bytes
read(in, off, num) ==
    IF off + num <= Len(in.bytes)
    THEN [status |-> "ok", bytes |-> SubSeq(in.bytes, off + 1, off + num)]
    ELSE [status |-> in.end, bytes |-> <<>>]

\* __recv_packet: header first, then the payload if the length is not 0
recv_packet(in) ==
    LET header == read(in, 0, 4) IN
    IF header.status # "ok" THEN [status |-> header.status, packet |-> NetDimmPacket(0, 0, <<>>)]
    ELSE
        LET pktid  == header.bytes[4]
            flags  == header.bytes[3]
            length == UnpackU16(header.bytes, 0)
            body   == read(in, 4, length)
        IN  IF length > 0
            THEN IF body.status # "ok"
                 THEN [status |-> body.status, packet |-> NetDimmPacket(pktid, flags, <<>>)]
                 ELSE [status |-> "ok", packet |-> NetDimmPacket(pktid, flags, body.bytes)]
            ELSE [status |-> "ok", packet |-> NetDimmPacket(pktid, flags, <<>>)]

\* fields of a frame that was sent
FramePktid(f)   == f[4]
FrameFlags(f)   == f[3]
FrameLength(f)  == UnpackU16(f, 0)
FramePayload(f) == SubSeq(f, 5, Len(f))

(***************************************************************************)
(* Command layer: the packets of each command.                             *)
(***************************************************************************)
\* __startup sending packet id 0 instead of the no-op
startup_packet_IdZero == NetDimmPacket(0, 0, <<>>)

startup_packet == NetDimmPacket(1, 0, <<>>)

exchange_host_mode_packet(mask_bits, set_bits) ==
    NetDimmPacket(7, 0, PackU32(((mask_bits % 256) * 256) + (set_bits % 256)))

exchange_dimm_mode_packet(mask_bits, set_bits) ==
    NetDimmPacket(8, 0, PackU32(((mask_bits % 256) * 256) + (set_bits % 256)))

\* __set_host_mode with the arguments of the exchange swapped
set_host_mode_packet_Swapped(mode) == exchange_host_mode_packet(mode, 0)

\* __set_host_mode(mode) is __exchange_host_mode(0, mode)
set_host_mode_packet(mode) == exchange_host_mode_packet(0, mode)

\* __get_host_mode with no mask bits
get_host_mode_packet_NoMask == exchange_host_mode_packet(0, 0)

\* __get_host_mode is __exchange_host_mode(0xFF, 0)
get_host_mode_packet == exchange_host_mode_packet(255, 0)

set_key_code_packet(keydata) == NetDimmPacket(127, 0, keydata)

\* __upload packing the address before the sequence number
upload_packet_AddrFirst(sequence, addr, data, last_chunk) ==
    NetDimmPacket(4, IF last_chunk THEN 129 ELSE 128,
                  PackU32(addr) \o PackU32(sequence) \o PackU16(0) \o data)

\* flags 0x81 on the last chunk, 0x80 otherwise; payload "<IIH" + data
upload_packet(sequence, addr, data, last_chunk) ==
    NetDimmPacket(4, IF last_chunk THEN 129 ELSE 128,
                  PackU32(sequence) \o PackU32(addr) \o PackU16(0) \o data)

get_information_packet == NetDimmPacket(24, 0, <<>>)

\* __set_information packing the length before the crc
set_information_packet_LengthFirst(crcword, length) ==
    NetDimmPacket(25, 0, PackU32(length) \o crcword \o PackU32(0))

\* payload "<III": crc & 0xFFFFFFFF, length, 0
set_information_packet(crcword, length) ==
    NetDimmPacket(25, 0, crcword \o PackU32(length) \o PackU32(0))

restart_packet == NetDimmPacket(10, 0, <<>>)

\* __set_time_limit packing the limit in seconds
set_time_limit_packet_Seconds(minutes) == NetDimmPacket(23, 0, PackU32(minutes * 60))

set_time_limit_packet(minutes) == NetDimmPacket(23, 0, PackU32(minutes))

\* payload "<III": addr, 0, data, with addr and data given as words
host_poke4_packet(addrword, dataword) == NetDimmPacket(17, 0, addrword \o PackU32(0) \o dataword)

\* a reply check that accepts any packet id
ReplyIdOk_Any(response, pktid) == TRUE

\* The check every replying command makes on its reply: first the packet
\* id, then the payload length.
ReplyIdOk(response, pktid)      == response.pktid = pktid
ReplyLengthOk(response, length) == Len(response.data) = length

\* the value an exchange returns: the low byte of the reply word
exchange_mode_result(response) == response.data[1]

\* __exchange_host_mode after its request was sent: receive, check, return
\* the mode.  exc "none" means it returned value.
exchange_host_mode_reply(in) ==
    LET r == recv_packet(in) IN
    IF r.status # "ok" THEN [exc |-> r.status, value |-> -1]
    ELSE IF ~ReplyIdOk(r.packet, 7) THEN [exc |-> "Protocol", value |-> -1]
    ELSE IF ~ReplyLengthOk(r.packet, 4) THEN [exc |-> "Protocol", value |-> -1]
    ELSE [exc |-> "none", value |-> exchange_mode_result(r.packet)]

\* __exchange_dimm_mode after its request was sent
exchange_dimm_mode_reply(in) ==
    LET r == recv_packet(in) IN
    IF r.status # "ok" THEN [exc |-> r.status, value |-> -1]
    ELSE IF ~ReplyIdOk(r.packet, 8) THEN [exc |-> "Protocol", value |-> -1]
    ELSE IF ~ReplyLengthOk(r.packet, 4) THEN [exc |-> "Protocol", value |-> -1]
    ELSE [exc |-> "none", value |-> exchange_mode_result(r.packet)]

(***************************************************************************)
(* Firmware versions and get-info decoding.                                *)
(***************************************************************************)
TargetEnum == {"chihiro", "naomi", "triforce"}

TargetVersionEnum == {"UNKNOWN", "1.07", "2.03", "2.15", "3.01", "4.01", "4.02"}

\* the value of each member, as its characters
VersionValue ==
    [m \in TargetVersionEnum |->
        CASE m = "UNKNOWN" -> <<"U", "N", "K", "N", "O", "W", "N">>
          [] m = "1.07" -> <<"1", ".", "0", "7">>
          [] m = "2.03" -> <<"2", ".", "0", "3">>
          [] m = "2.15" -> <<"2", ".", "1", "5">>
          [] m = "3.01" -> <<"3", ".", "0", "1">>
          [] m = "4.01" -> <<"4", ".", "0", "1">>
          [] m = "4.02" -> <<"4", ".", "0", "2">>]

\* "{}".format(n) and "{:02}".format(n), as characters
Digit(n) == <<"0", "1", "2", "3", "4", "5", "6", "7", "8", "9">>[n + 1]

RECURSIVE Decimal(_)
Decimal(n) == IF n < 10 THEN <<Digit(n)>> ELSE Decimal(n \div 10) \o <<Digit(n % 10)>>

Decimal02(n) == IF n < 10 THEN <<"0">> \o Decimal(n) ELSE Decimal(n)

\* f"{(version >> 8) & 0xFF}.{(version & 0xFF):02}" for the two bytes of version
version_str(major, minor) == Decimal(major) \o <<".">> \o Decimal02(minor)

\* TargetVersionEnum(version_str), TARGET_VERSION_UNKNOWN on ValueError
firmware_version(major, minor) ==
    IF \E m \in TargetVersionEnum : VersionValue[m] = version_str(major, minor)
    THEN CHOOSE m \in TargetVersionEnum : VersionValue[m] = version_str(major, minor)
    ELSE "UNKNOWN"

NoInfo == [current_game_crc |-> Zero32, memory_size |-> -1,
           firmware_version |-> "none", available_game_memory |-> <<>>]

\* NetDimmInfo with game_memory and dimm_memory unpacked in the other order
NetDimmInfo_MemorySwapped(payload) ==
    LET version     == UnpackU16(payload, 2)
        game_memory == UnpackU16(payload, 6)
        dimm_memory == UnpackU16(payload, 4)
    IN  [current_game_crc |-> Word(payload, 8),
         memory_size |-> dimm_memory,
         firmware_version |-> firmware_version((version \div 256) % 256, version % 256),
         available_game_memory |->
             <<0, 0, (game_memory % 16) * 16, (game_memory \div 16) % 256, game_memory \div 4096>>]

\* NetDimmInfo from the 12 payload bytes "<HHHHI".  available_game_memory is
\* game_memory << 20, kept as its little-endian bytes (it needs up to 36 bits).
NetDimmInfo(payload) ==
    LET version     == UnpackU16(payload, 2)
        game_memory == UnpackU16(payload, 4)
        dimm_memory == UnpackU16(payload, 6)
    IN  [current_game_crc |-> Word(payload, 8),
         memory_size |-> dimm_memory,
         firmware_version |-> firmware_version((version \div 256) % 256, version % 256),
         available_game_memory |->
             <<0, 0, (game_memory % 16) * 16, (game_memory \div 16) % 256, game_memory \div 4096>>]

\* __get_information after its request was sent
get_information_reply(in) ==
    LET r == recv_packet(in) IN
    IF r.status # "ok" THEN [exc |-> r.status, value |-> NoInfo]
    ELSE IF ~ReplyIdOk(r.packet, 24) THEN [exc |-> "Protocol", value |-> NoInfo]
    ELSE IF ~ReplyLengthOk(r.packet, 12) THEN [exc |-> "Protocol", value |-> NoInfo]
    ELSE [exc |-> "none", value |-> NetDimmInfo(r.packet.data)]

(***************************************************************************)
(* Upload pipeline.                                                        *)
(***************************************************************************)
\* block size of the DES cipher, and the length a key code must have
DesBlockSize == 8

\* the slice length of __upload_file (0x8000 in the program)
ChunkSize == DesBlockSize * ChunkBlocks

\* payload lengths tried: empty, shorter than a block, one block, around one
\* chunk, a chunk and a block, two chunks, two chunks and a short third one
PayloadLengths ==
    {0, 1, DesBlockSize, ChunkSize - 1, ChunkSize, ChunkSize + 1,
     ChunkSize + DesBlockSize, 2 * ChunkSize, 2 * ChunkSize + 1}

\* A key argument: None, or a byte string.
NoKey == [given |-> FALSE, bytes |-> <<>>]
KeyOf(bytes) == [given |-> TRUE, bytes |-> bytes]

\* Python's "if key": a byte string that is not None and not empty
KeyTruthy(key) == key.given /\ Len(key.bytes) > 0

\* the key code send() announces: the key, or the magic zero key
key_code(key) == IF KeyTruthy(key) THEN key.bytes ELSE [i \in 1..8 |-> 0]

\* DES in ECB mode (Crypto.Cipher.DES), abstracted: a keyed permutation of
\* each 8-byte block, block by block.  It is defined on whole blocks only;
\* the library raises ValueError on any other length.
des_encrypt(k, s) ==
    [i \in 1..Len(s) |->
        LET base == ((i - 1) \div DesBlockSize) * DesBlockSize
            j    == i - base
        IN  (s[base + (j % DesBlockSize) + 1] + k[j] + j) % 256]

des_accepts(s) == Len(s) % DesBlockSize = 0

\* __encrypt of __upload_file: des is DES.new(key[::-1]) if key else None
encrypt(key, chunk) ==
    IF ~KeyTruthy(key) THEN chunk
    ELSE Reverse(des_encrypt(Reverse(key.bytes), Reverse(chunk)))

\* data[addr:(addr + 0x8000)]
Slice(data, addr) ==
    SubSeq(data, addr + 1, IF addr + ChunkSize < Len(data) THEN addr + ChunkSize ELSE Len(data))

\* last_packet = addr + curlen == total
last_packet(data, addr) == addr + Len(Slice(data, addr)) = Len(data)

(***************************************************************************)
(* Boot-ID patch table.                                                    *)
(***************************************************************************)
\* addr + n on a little-endian word, for small n
AddWord(w, n) ==
    LET b1 == w[1] + n
        b2 == w[2] + (b1 \div 256)
        b3 == w[3] + (b2 \div 256)
        b4 == w[4] + (b3 \div 256)
    IN  <<b1 % 256, b2 % 256, b3 % 256, b4 % 256>>

\* the table of __patch_boot_id_check; <<>> stands for None
patch_addr(ver) ==
    CASE ver = "1.07" -> <<160, 216, 0, 128>>    \* 0x8000d8a0
      [] ver = "2.03" -> <<108, 204, 0, 128>>    \* 0x8000CC6C
      [] ver = "2.15" -> <<108, 204, 0, 128>>    \* 0x8000CC6C
      [] ver = "3.01" -> <<92, 220, 0, 128>>     \* 0x8000dc5c
      [] OTHER -> <<>>

\* the patch with its fourth poke at addr + 0, as the TODO of line 403 says
\* the original script had it
patch_pokes_FourthAtBase(ver) ==
    LET addr == patch_addr(ver) IN
    IF addr = <<>> THEN <<>>
    ELSE IF ver = "3.01" THEN << <<AddWord(addr, 0), <<28, 0, 0, 72>> >> >>
    ELSE << <<AddWord(addr, 0), <<32, 0, 128, 78>> >>,
            <<AddWord(addr, 4), <<0, 0, 96, 56>> >>,
            <<AddWord(addr, 8), <<32, 0, 128, 78>> >>,
            <<AddWord(addr, 0), <<0, 0, 0, 96>> >> >>

\* the pokes __patch_boot_id_check makes, in order, as <<addr, data>> words
patch_pokes(ver) ==
    LET addr == patch_addr(ver) IN
    IF addr = <<>> THEN <<>>
    ELSE IF ver = "3.01" THEN << <<AddWord(addr, 0), <<28, 0, 0, 72>> >> >>     \* 0x4800001C
    ELSE << <<AddWord(addr, 0), <<32, 0, 128, 78>> >>,                           \* 0x4e800020
            <<AddWord(addr, 4), <<0, 0, 96, 56>> >>,                             \* 0x38600000
            <<AddWord(addr, 8), <<32, 0, 128, 78>> >>,                           \* 0x4e800020
            <<AddWord(addr, 12), <<0, 0, 0, 96>> >> >>                           \* 0x60000000

(***************************************************************************)
(* Inputs of the operations and answers of the device.                     *)
(***************************************************************************)
\* a payload of each of these lengths
Payload(n) == [i \in 1..n |-> (67 + i * 29) % 256]
Payloads == {Payload(n) : n \in PayloadLengths}

\* key arguments: None, b'', the key 01..08, the all-zero key, a 3-byte key
Keys == {NoKey, KeyOf(<<>>), KeyOf(<<1, 2, 3, 4, 5, 6, 7, 8>>),
         KeyOf(<<0, 0, 0, 0, 0, 0, 0, 0>>), KeyOf(<<1, 2, 3>>)}

\* progress callbacks: None, or a function that raises on its raiseAt-th
\* call (0: never raises)
NoCallback == [present |-> FALSE, raiseAt |-> 0]
Callbacks == {NoCallback} \cup {[present |-> TRUE, raiseAt |-> n] : n \in 0..MaxRaiseAt}

NoIncoming == Incoming(<<>>, "none")

\* what the device may answer to a host-mode exchange
HostModeAnswers ==
    { Incoming(send_packet(NetDimmPacket(7, 0, <<1, 0, 0, 0>>)), "timeout"),
      Incoming(send_packet(NetDimmPacket(7, 0, <<1, 170, 187, 204>>)), "timeout"),
      Incoming(send_packet(NetDimmPacket(25, 0, <<1, 0, 0, 0>>)), "timeout"),
      Incoming(send_packet(NetDimmPacket(8, 0, <<1, 0, 0, 0>>)), "timeout"),
      Incoming(send_packet(NetDimmPacket(7, 0, <<>>)), "timeout"),
      Incoming(send_packet(NetDimmPacket(7, 0, <<1, 0, 0, 0, 0, 0, 0, 0, 0, 0, 0, 0>>)), "timeout"),
      Incoming(<<2, 0, 0, 7, 1>>, "timeout"),
      Incoming(<<>>, "timeout"),
      Incoming(<<4, 0, 0, 7, 1>>, "eof"),
      Incoming(<<>>, "eof") }

\* what the device may answer to get-info
InfoAnswers ==
    { Incoming(send_packet(NetDimmPacket(24, 0, <<52, 18, 12, 3, 0, 1, 0, 2, 222, 173, 190, 239>>)), "timeout"),
      Incoming(send_packet(NetDimmPacket(24, 0, <<12, 0, 1, 3, 0, 2, 0, 4, 1, 2, 3, 4>>)), "timeout"),
      Incoming(send_packet(NetDimmPacket(24, 0, <<12, 0, 7, 1, 255, 255, 255, 255, 255, 255, 255, 255>>)), "timeout"),
      Incoming(send_packet(NetDimmPacket(24, 0, <<12, 0, 15, 2, 1, 0, 0, 1, 0, 0, 0, 0>>)), "timeout"),
      Incoming(send_packet(NetDimmPacket(24, 0, <<12, 0, 101, 1, 16, 0, 16, 0, 9, 8, 7, 6>>)), "timeout"),
      Incoming(send_packet(NetDimmPacket(24, 0, <<12, 0, 7, 10, 0, 16, 0, 16, 1, 1, 1, 1>>)), "timeout"),
      Incoming(send_packet(NetDimmPacket(25, 0, <<52, 18, 12, 3, 0, 1, 0, 2, 222, 173, 190, 239>>)), "timeout"),
      Incoming(send_packet(NetDimmPacket(24, 0, <<1, 0, 0, 0>>)), "timeout"),
      Incoming(send_packet(NetDimmPacket(24, 0, <<>>)), "timeout"),
      Incoming(<<12, 0, 0, 24, 52, 18>>, "timeout"),
      Incoming(<<>>, "timeout"),
      Incoming(<<>>, "eof") }

(***************************************************************************)
(* The stream under one packet, and the device's host mode register.       *)
(***************************************************************************)
\* short recv results one __read is given before recv hands over all it asked for
MaxShortReads == 2

\* b'' results of recv that are followed within one __read
MaxEmptyReads == 2

\* the largest payload the 16-bit length field describes (0xFFFF)
MaxPayload == 65535

\* no __send_packet was made yet
NoTx == [phase |-> "idle", packet |-> NetDimmPacket(0, 0, <<>>), buf |-> <<>>, accepted |-> 0]

\* no __recv_packet is in progress
NoRx == [pc |-> "idle", stream |-> <<>>, end |-> "none", off |-> 0, left |-> 0,
         res |-> <<>>, short |-> 0, empty |-> 0, header |-> <<>>,
         packet |-> NetDimmPacket(0, 0, <<>>)]

\* the packets handed to __send_packet
LinkPktids  == {0, 7, 255}
LinkFlags   == {0, 129, 255}
LinkLengths == {0, 1, 255, 256, MaxPayload}
LinkPackets ==
    {NetDimmPacket(i, f, Payload(n)) : i \in LinkPktids, f \in LinkFlags, n \in LinkLengths}

\* what sock.send(buf) may return for a buffer of n > 0 bytes
SendResults(n) == {1, n - 1, n} \ {0}

\* what arrives on the stream after a frame went out: the frame itself, or
\* the first cut bytes of it
StreamCuts(n) == {0, 2, 4, n - 1, n}

\* what a recv finds after the last of cut bytes of a frame of n: the end of
\* a whole frame is never looked at
StreamEnds(cut, n) == IF cut = n THEN {"timeout"} ELSE {"timeout", "eof"}

\* the lengths sock.recv(left) may return when avail bytes are waiting
RecvSizes(left, avail, short) ==
    LET m == IF left < avail THEN left ELSE avail IN
    IF short >= MaxShortReads THEN {m} ELSE {1, m \div 2, m} \ {0}

RECURSIVE And8(_, _)
And8(a, b) ==
    IF a = 0 \/ b = 0 THEN 0
    ELSE ((a % 2) * (b % 2)) + 2 * And8(a \div 2, b \div 2)

Or8(a, b) == a + b - And8(a, b)

\* the device's register when the last exchange was `last`
Device(mode) == [mode |-> mode, last |-> "none", arg |-> 0, old |-> mode,
                 value |-> -1, exc |-> "none", before |-> -1]

\* the modes the device may be in when the host connects
DeviceModes == {0, 1, 2, 10, 20, 85, 170, 255}

\* the modes handed to __set_host_mode
HostModes == {0, 1, 2, 10, 20, 128, 255, 256, 266, 511}

\* what the device leaves in the three top bytes of its reply
ReplyJunk == {0, 255}

\* the device's side of a host-mode exchange: the mode after request frame
\* req, new = (old & mask) | set
device_host_mode(old, req) ==
    LET word == FramePayload(req) IN Or8(And8(old, word[2]), word[1])

\* the reply the device sends: packet 0x07, the mode in the bottom byte
device_host_mode_reply(new, junk) ==
    Incoming(send_packet(NetDimmPacket(7, 0, <<new % 256, junk, junk, junk>>)), "timeout")

(***************************************************************************)
(* The settings editor: settings, the tab component, the settings          *)
(* components, the quit dialog.                                            *)
(***************************************************************************)
\* setting.current of a setting that has no current value
None == -1

\* a setting: its name, its values (the dict key -> label, in its order),
\* the key of its current value, and whether it is read-only
Setting(name, values, current, read_only) ==
    [name |-> name, values |-> values, current |-> current, read_only |-> read_only]

\* a SettingsWrapper: the system settings and the game settings
SettingsWrapper(system, game) == <<system, game>>

\* the two tabs of the editor: 1 is "System Settings", 2 is "Game Settings";
\* __selected = 0 is tab 1
Tabs == {1, 2}

\* the wrappers the editor is run on
Wrappers ==
    { SettingsWrapper(
        << Setting("region", << <<0, "japan">>, <<1, "usa">>, <<2, "export">> >>, 1, FALSE),
           Setting("serial", << <<0, "BAD0">> >>, 0, TRUE),
           Setting("sound", << <<0, "stereo">>, <<1, "mono">> >>, None, FALSE) >>,
        << Setting("lives", << <<1, "one">>, <<2, "two">>, <<3, "three">> >>, 3, FALSE),
           Setting("sound", << <<0, "off">>, <<1, "on">> >>, 0, FALSE) >>),
      SettingsWrapper(
        << Setting("region", << <<0, "japan">>, <<1, "usa">>, <<2, "export">> >>, 0, FALSE),
           Setting("sound", << <<0, "stereo">>, <<1, "mono">> >>, 1, FALSE),
           Setting("freeplay", << <<0, "off">>, <<1, "on">> >>, 0, FALSE) >>,
        << Setting("lives", << <<1, "one">>, <<2, "two">>, <<3, "three">> >>, None, FALSE),
           Setting("level", << <<0, "easy">> >>, 0, TRUE) >>) }

\* the caller's SettingsWrapper, as an object
CallerObject == <<"settings">>

\* copy.deepcopy: another object, equal in value to obj
deepcopy(obj) == <<"copy">> \o obj

\* [s for s in settings.settings if s.read_only is not True], as positions
editable(group) == {p \in 1..Len(group) : ~group[p].read_only}

\* the position in settings.settings of the i-th setting of self.__settings
edit_position(group, i) ==
    CHOOSE p \in editable(group) : Cardinality({q \in editable(group) : q <= p}) = i

\* setting.values[k]
value_of(setting, k) ==
    LET i == CHOOSE j \in 1..Len(setting.values) : setting.values[j][1] = k
    IN  setting.values[i][2]

\* [v for _, v in setting.values.items()]
options(setting) == [j \in 1..Len(setting.values) |-> setting.values[j][2]]

\* setting.current or list(setting.values.keys())[0]: None and 0 are both
\* false
current_or_first(setting) ==
    IF setting.current = None \/ setting.current = 0 THEN setting.values[1][1]
    ELSE setting.current

\* the inputs of a SettingsComponent as __init__ leaves them: each shows the
\* current value of its setting, the first has focus
new_inputs(group) ==
    [i \in 1..Cardinality(editable(group)) |->
        LET setting == group[edit_position(group, i)] IN
        [selected |-> value_of(setting, current_or_first(setting)),
         options  |-> options(setting),
         focus    |-> i = 1]]

\* lines 216-219: the first key whose value is the one the input shows
key_of_selected(setting, selected) ==
    LET i == CHOOSE j \in 1..Len(setting.values) :
                /\ setting.values[j][2] = selected
                /\ \A h \in 1..(j - 1) : setting.values[h][2] # selected
    IN  setting.values[i][1]

\* lines 215-221: every setting of the component takes the key of what its
\* input shows
sync_settings(group, inps) ==
    [p \in 1..Len(group) |->
        IF group[p].read_only THEN group[p]
        ELSE LET i == Cardinality({q \in editable(group) : q <= p})
             IN  [group[p] EXCEPT !.current = key_of_selected(group[p], inps[i].selected)]]

\* __highlight: button.invert = i == self.__selected
highlight(sel) == [t \in Tabs |-> (t - 1) = sel]

\* line 102: (self.__selected + 1) % len(self.__buttons)
next_tab(sel, n) == (sel + 1) % n

\* input forwarded to the content of every tab
input_targets_All(sel) == Tabs

\* line 108: besides the buttons, the border of the selected tab only gets
\* the event
input_targets(sel) == {sel + 1}

\* UP without the test for the first input: inputs[i - 1] with i = 0 is the
\* last input
focus_after_up_NoGuard(inps) ==
    IF \E i \in 1..Len(inps) : inps[i].focus
    THEN LET i == CHOOSE j \in 1..Len(inps) :
                     inps[j].focus /\ \A h \in 1..(j - 1) : ~inps[h].focus
             to == IF i = 1 THEN Len(inps) ELSE i - 1
         IN  [j \in 1..Len(inps) |->
                [inps[j] EXCEPT !.focus = IF j = to THEN TRUE ELSE IF j = i THEN FALSE ELSE @]]
    ELSE inps

\* lines 199-203: the first focused input that is not the first input gives
\* its focus to the one before it
focus_after_up(inps) ==
    IF \E i \in 2..Len(inps) : inps[i].focus
    THEN LET i == CHOOSE j \in 2..Len(inps) :
                     inps[j].focus /\ \A h \in 2..(j - 1) : ~inps[h].focus
         IN  [j \in 1..Len(inps) |->
                [inps[j] EXCEPT !.focus = IF j = i - 1 THEN TRUE ELSE IF j = i THEN FALSE ELSE @]]
    ELSE inps

\* lines 206-210: the first focused input that is not the last input gives
\* its focus to the one after it
focus_after_down(inps) ==
    IF \E i \in 1..(Len(inps) - 1) : inps[i].focus
    THEN LET i == CHOOSE j \in 1..(Len(inps) - 1) :
                     inps[j].focus /\ \A h \in 1..(j - 1) : ~inps[h].focus
         IN  [j \in 1..Len(inps) |->
                [inps[j] EXCEPT !.focus = IF j = i + 1 THEN TRUE ELSE IF j = i THEN FALSE ELSE @]]
    ELSE inps

\* __click_select: a left click on input c gives it the focus and takes it
\* from every other input; any other button changes nothing
click_select(inps, c, button) ==
    IF button = "LEFT"
    THEN [j \in 1..Len(inps) |-> [inps[j] EXCEPT !.focus = (j = c)]]
    ELSE inps

\* SelectInputComponent on LEFT and RIGHT: the focused input shows the
\* option before or after the one it shows, if there is one
select_step(inp, dir) ==
    LET i == CHOOSE j \in 1..Len(inp.options) : inp.options[j] = inp.selected
        k == IF dir = "LEFT" THEN i - 1 ELSE i + 1
    IN  IF inp.focus /\ k \in 1..Len(inp.options)
        THEN [inp EXCEPT !.selected = inp.options[k]]
        ELSE inp

\* the quit dialog saving on every answer that leaves the editor
dialog_saves_OnExit(option) == option \in {"Yes", "No"}

\* lines 302-314: the options of the quit dialog; only Yes calls save_eeprom
dialog_saves(option) == option = "Yes"

\* lines 302-314: Yes and No leave the main loop, Cancel does not
dialog_exits(option) == option \in {"Yes", "No"}

\* lines 342-351, for one group: each new setting's current goes to the
\* first current setting of the same name
copy_out(cur, new) ==
    [p \in 1..Len(cur) |->
        LET first == \A q \in 1..(p - 1) : cur[q].name # cur[p].name
            from  == {q \in 1..Len(new) : new[q].name = cur[p].name}
        IN  IF first /\ from # {}
            THEN [cur[p] EXCEPT !.current =
                     new[CHOOSE q \in from : \A h \in from : h <= q].current]
            ELSE cur[p]]

\* the context of execute(): 'settings', and 'newsettings' once it is set
\* (object is the object 'settings' refers to, settings its value)
NoContext == [object |-> <<>>, settings |-> <<>>, newsettings |-> <<>>, saved |-> FALSE]

\* no input event was handled yet
NoEvent == [event |-> "none", selected |-> 0, inputs |-> <<>>, settings |-> <<>>,
            to |-> {}, dialog |-> FALSE]

(***************************************************************************)
(* State.                                                                  *)
(***************************************************************************)
VARIABLES
    target,     \* self.target
    version,    \* self.version
    sock,       \* self.sock: "None", or the state of the socket object it holds
    nsockets,   \* sockets created by the operation in progress
    nclosed,    \* close() calls made by the operation in progress
    op,         \* the public operation in progress or last finished
    pc,         \* where the operation is
    data,       \* argument of send
    key,        \* argument of send
    cb,         \* argument of send (progress_callback)
    sent,       \* the frames handed to sock.send in this operation, in order
    incoming,   \* what the last receive was given by the device
    crc,        \* local crc of __upload_file
    addr,       \* local addr of __upload_file
    sequence,   \* local sequence of __upload_file
    poked,      \* pokes made so far by __patch_boot_id_check
    progress,   \* the calls made to the progress callback, <<done, total>>
    result,     \* "running", "returned" or "raised"
    exc,        \* the exception raised, "none" if none
    ret,        \* the NetDimmInfo returned by info
    tx,         \* the last __send_packet: its packet, buffer and what sock.send took
    rx,         \* the __recv_packet in progress: the stream and the locals of __read
    dev,        \* the device's host mode register and the last exchange with it
    given,      \* the target and version __init__ was given
    told,       \* the firmware version info() returned, if info() was the
                \* operation before the one in progress, "none" otherwise
    settings,   \* SettingsEditor.settings, the caller's SettingsWrapper
    before,     \* what settings was when run() was called
    context,    \* the context of execute(): 'settings' and 'newsettings'
    loop,       \* the main loop: "none", "running", "exited", "returned"
    dialog,     \* the quit dialog is registered
    selected,   \* TabComponent.__selected
    invert,     \* invert of each tab button
    inputs,     \* the inputs of each tab's SettingsComponent
    last        \* the last input event, what it found and who received it

vars == <<target, version, sock, nsockets, nclosed, op, pc, data, key, cb, sent,
          incoming, crc, addr, sequence, poked, progress, result, exc, ret,
          tx, rx, dev, given, told,
          settings, before, context, loop, dialog, selected, invert, inputs, last>>

config   == <<target, version>>
args     == <<op, data, key, cb>>
locals   == <<crc, addr, sequence, poked>>
sockvars == <<sock, nsockets, nclosed>>
link     == <<tx, rx, dev>>
caller   == <<given, told>>
editor   == <<settings, before, context, loop, dialog, selected, invert, inputs, last>>

\* no SettingsEditor was made
NoEditor ==
    /\ settings = <<>>
    /\ before = <<>>
    /\ context = NoContext
    /\ loop = "none"
    /\ dialog = FALSE
    /\ selected = 0
    /\ invert = <<>>
    /\ inputs = <<>>
    /\ last = NoEvent

\* NetDimm.__init__
Init ==
    /\ target \in TargetEnum
    /\ version \in TargetVersionEnum
    /\ sock = "None"
    /\ nsockets = 0
    /\ nclosed = 0
    /\ op = "none"
    /\ pc = "idle"
    /\ data = <<>>
    /\ key = NoKey
    /\ cb = NoCallback
    /\ sent = <<>>
    /\ incoming = NoIncoming
    /\ crc = Zero32
    /\ addr = 0
    /\ sequence = 1
    /\ poked = 0
    /\ progress = <<>>
    /\ result = "none"
    /\ exc = "none"
    /\ ret = NoInfo
    /\ tx = NoTx
    /\ rx = NoRx
    /\ dev = Device(0)
    /\ given = [target |-> target, version |-> version]
    /\ told = "none"
    /\ NoEditor

(***************************************************************************)
(* The session: __connection.                                              *)
(***************************************************************************)
\* the finally clause of __connection, leaving the operation with an outcome
Finally(res, e) ==
    /\ sock' = "None"
    /\ nclosed' = nclosed + 1
    /\ nsockets' = nsockets
    /\ pc' = "done"
    /\ result' = res
    /\ exc' = e

\* the operation goes on to its next statement
Goto(next) ==
    /\ pc' = next
    /\ UNCHANGED <<sockvars, result, exc>>

\* __read spins once the peer has closed the stream: recv returns b'' and
\* left never decreases
Hang ==
    /\ pc' = "hung"
    /\ UNCHANGED <<sockvars, result, exc>>

\* the outcome of a receive that did not deliver a packet
ReceiveFails(status) ==
    IF status = "eof" THEN Hang ELSE Finally("raised", "IO")

\* a public operation is called on the idle facade
Begin(o, d, k, c) ==
    /\ pc = "idle"
    /\ op' = o /\ data' = d /\ key' = k /\ cb' = c
    /\ pc' = "connect"
    /\ result' = "running"
    /\ told' = IF o = "reboot" THEN told ELSE "none"
    /\ UNCHANGED <<config, link, editor, given, sockvars, sent, incoming, locals, progress, exc, ret>>

\* The caller has the outcome of the operation; the facade is idle again.
\* Nothing of the finished operation is kept but self.sock, which every
\* operation sets anew.
Return ==
    /\ pc = "done"
    /\ pc' = "idle"
    /\ op' = "none" /\ data' = <<>> /\ key' = NoKey /\ cb' = NoCallback
    /\ nsockets' = 0 /\ nclosed' = 0
    /\ sent' = <<>> /\ incoming' = NoIncoming
    /\ crc' = Zero32 /\ addr' = 0 /\ sequence' = 1 /\ poked' = 0
    /\ progress' = <<>>
    /\ result' = "none" /\ exc' = "none" /\ ret' = NoInfo
    /\ told' = IF op = "info" /\ result = "returned" THEN ret.firmware_version ELSE "none"
    /\ UNCHANGED <<config, link, editor, given, sock>>

Call_info == Begin("info", <<>>, NoKey, NoCallback)

Call_send == \E d \in Payloads, k \in Keys, c \in Callbacks : Begin("send", d, k, c)

Call_reboot == Begin("reboot", <<>>, NoKey, NoCallback)

\* the first statement of each operation's body
Body(o) ==
    CASE o = "info"   -> "get_information"
      [] o = "send"   -> "progress_callback"
      [] o = "reboot" -> "restart"

\* lines 132-138: create the socket and connect; a failure is re-raised as
\* NetDimmException and leaves self.sock holding the socket
Connect ==
    /\ pc = "connect"
    /\ nsockets' = nsockets + 1
    /\ \E ok \in BOOLEAN :
        IF ok
        THEN /\ sock' = "connected"
             /\ pc' = "startup"
             /\ UNCHANGED <<result, exc>>
        ELSE /\ sock' = "unconnected"
             /\ pc' = "done"
             /\ result' = "raised"
             /\ exc' = "Connect"
    /\ UNCHANGED <<config, link, editor, caller, args, nclosed, sent, incoming, locals, progress, ret>>

\* lines 140-141: __startup inside the try
Startup ==
    /\ pc = "startup"
    /\ \E ok \in BOOLEAN :
        IF ok
        THEN /\ sent' = Append(sent, send_packet(startup_packet))
             /\ Goto(Body(op))
        ELSE /\ Finally("raised", "IO")
             /\ UNCHANGED sent
    /\ UNCHANGED <<config, link, editor, caller, args, incoming, locals, progress, ret>>

(***************************************************************************)
(* info.                                                                   *)
(***************************************************************************)
\* line 303: the get-info request
GetInformationSend ==
    /\ pc = "get_information"
    /\ \E ok \in BOOLEAN :
        IF ok
        THEN /\ sent' = Append(sent, send_packet(get_information_packet))
             /\ Goto("get_information_reply")
        ELSE /\ Finally("raised", "IO")
             /\ UNCHANGED sent
    /\ UNCHANGED <<config, link, editor, caller, args, incoming, locals, progress, ret>>

\* info() adopting the firmware version the device reported
version_after_info_Adopted(v, info) == info.firmware_version

\* self.version once __get_information returned info: nothing of lines
\* 302-330 and 71-74 assigns it
version_after_info(v, info) == v

\* lines 306-330: the reply, its checks, and the return through the finally
GetInformationReceive ==
    /\ pc = "get_information_reply"
    /\ \E in \in InfoAnswers :
        LET r == get_information_reply(in) IN
        /\ incoming' = in
        /\ IF r.exc = "none"
           THEN /\ Finally("returned", "none")
                /\ ret' = r.value
                /\ version' = version_after_info(version, r.value)
           ELSE IF r.exc = "Protocol"
           THEN Finally("raised", "Protocol") /\ ret' = ret /\ version' = version
           ELSE ReceiveFails(r.exc) /\ ret' = ret /\ version' = version
    /\ UNCHANGED <<target, link, editor, caller, args, sent, locals, progress>>

(***************************************************************************)
(* send.                                                                   *)
(***************************************************************************)
\* the arguments of the callback at line 80
start_progress_args(d) == <<0, Len(d)>>

\* the callback of line 353 given total first
chunk_progress_args_TotalFirst(a, total) == <<total, a>>

\* the arguments of the callback at line 353
chunk_progress_args(a, total) == <<a, total>>

\* an exception of the progress callback swallowed by the operation
CallbackRaises_Swallowed(n) == FALSE

\* the progress callback is called for the n-th time and raises
CallbackRaises(n) == cb.present /\ cb.raiseAt = n

\* lines 79-80: progress_callback(0, len(data)) if there is a callback
ProgressStart ==
    /\ pc = "progress_callback"
    /\ IF cb.present
       THEN /\ progress' = Append(progress, start_progress_args(data))
            /\ IF CallbackRaises(Len(progress) + 1)
               THEN Finally("raised", "Callback")
               ELSE Goto("set_host_mode")
       ELSE /\ progress' = progress
            /\ Goto("set_host_mode")
    /\ UNCHANGED <<config, link, editor, caller, args, sent, incoming, locals, ret>>

\* line 83, first half: the request of __set_host_mode(1)
SetHostModeSend ==
    /\ pc = "set_host_mode"
    /\ \E ok \in BOOLEAN :
        IF ok
        THEN /\ sent' = Append(sent, send_packet(set_host_mode_packet(1)))
             /\ Goto("set_host_mode_reply")
        ELSE /\ Finally("raised", "IO")
             /\ UNCHANGED sent
    /\ UNCHANGED <<config, link, editor, caller, args, incoming, locals, progress, ret>>

\* line 83, second half: the reply of the exchange and its checks
SetHostModeReceive ==
    /\ pc = "set_host_mode_reply"
    /\ \E in \in HostModeAnswers :
        LET r == exchange_host_mode_reply(in) IN
        /\ incoming' = in
        /\ IF r.exc = "none"
           THEN Goto("set_key_code")
           ELSE IF r.exc = "Protocol"
           THEN Finally("raised", "Protocol")
           ELSE ReceiveFails(r.exc)
    /\ UNCHANGED <<config, link, editor, caller, args, sent, locals, progress, ret>>

\* lines 85-90 and 257-260: the key code, or the zero key; a key code that
\* is not 8 bytes long raises before the packet is sent.  Lines 339-349 (the
\* locals of __upload_file) follow without any I/O.
SetKeyCode ==
    /\ pc = "set_key_code"
    /\ LET keydata == key_code(key) IN
        IF Len(keydata) # 8
        THEN /\ Finally("raised", "KeyLength")
             /\ UNCHANGED sent
        ELSE \E ok \in BOOLEAN :
                IF ok
                THEN /\ sent' = Append(sent, send_packet(set_key_code_packet(keydata)))
                     /\ Goto("upload_file")
                ELSE /\ Finally("raised", "IO")
                     /\ UNCHANGED sent
    /\ crc' = Zero32 /\ addr' = 0 /\ sequence' = 1
    /\ UNCHANGED <<config, link, editor, caller, args, incoming, poked, progress, ret>>

\* lines 350-363: one turn of the upload loop
UploadChunk ==
    /\ pc = "upload_file"
    /\ addr < Len(data)
    /\ progress' = IF cb.present
                   THEN Append(progress, chunk_progress_args(addr, Len(data)))
                   ELSE progress
    /\ LET current == Slice(data, addr)
           curlen  == Len(current)
       IN
        IF CallbackRaises(Len(progress) + 1)
        THEN /\ Finally("raised", "Callback")
             /\ UNCHANGED <<sent, crc, addr, sequence>>
        ELSE IF KeyTruthy(key) /\ ~des_accepts(current)
        THEN /\ Finally("raised", "ValueError")
             /\ UNCHANGED <<sent, crc, addr, sequence>>
        ELSE \E ok \in BOOLEAN :
                IF ok
                THEN /\ sent' = Append(sent, send_packet(
                                   upload_packet(sequence, addr, encrypt(key, current),
                                                 last_packet(data, addr))))
                     /\ crc' = crc32(encrypt(key, current), crc)
                     /\ addr' = addr + curlen
                     /\ sequence' = sequence + 1
                     /\ Goto("upload_file")
                ELSE /\ Finally("raised", "IO")
                     /\ UNCHANGED <<sent, crc, addr, sequence>>
    /\ UNCHANGED <<config, link, editor, caller, args, incoming, poked, ret>>

\* lines 365-367: after the loop, set-info with the inverted crc and the
\* length; send returns through the finally
SetInformation ==
    /\ pc = "upload_file"
    /\ ~(addr < Len(data))
    /\ \E ok \in BOOLEAN :
        IF ok
        THEN /\ sent' = Append(sent, send_packet(set_information_packet(Not32(crc), addr)))
             /\ Finally("returned", "none")
        ELSE /\ Finally("raised", "IO")
             /\ UNCHANGED sent
    /\ UNCHANGED <<config, link, editor, caller, args, incoming, locals, progress, ret>>

(***************************************************************************)
(* reboot.                                                                 *)
(***************************************************************************)
\* line 98
Restart ==
    /\ pc = "restart"
    /\ \E ok \in BOOLEAN :
        IF ok
        THEN /\ sent' = Append(sent, send_packet(restart_packet))
             /\ Goto("set_time_limit")
        ELSE /\ Finally("raised", "IO")
             /\ UNCHANGED sent
    /\ UNCHANGED <<config, link, editor, caller, args, incoming, locals, progress, ret>>

\* reboot patching whatever the target family is
PokesLeft_AnyTarget == poked < Len(patch_pokes(version))

\* the pokes reboot still has to make
PokesLeft == target = "triforce" /\ poked < Len(patch_pokes(version))

\* lines 101-104: the time limit; reboot returns here unless it has pokes
\* to make
SetTimeLimit ==
    /\ pc = "set_time_limit"
    /\ \E ok \in BOOLEAN :
        IF ok
        THEN /\ sent' = Append(sent, send_packet(set_time_limit_packet(10)))
             /\ IF PokesLeft THEN Goto("patch_boot_id_check") ELSE Finally("returned", "none")
        ELSE /\ Finally("raised", "IO")
             /\ UNCHANGED sent
    /\ UNCHANGED <<config, link, editor, caller, args, incoming, locals, progress, ret>>

\* lines 397-406: the next poke of the patch; reboot returns after the last
HostPoke ==
    /\ pc = "patch_boot_id_check"
    /\ \E ok \in BOOLEAN :
        IF ok
        THEN /\ sent' = Append(sent, send_packet(
                           host_poke4_packet(patch_pokes(version)[poked + 1][1],
                                             patch_pokes(version)[poked + 1][2])))
             /\ poked' = poked + 1
             /\ IF poked + 1 < Len(patch_pokes(version))
                THEN Goto("patch_boot_id_check")
                ELSE Finally("returned", "none")
        ELSE /\ Finally("raised", "IO")
             /\ UNCHANGED <<sent, poked>>
    /\ UNCHANGED <<config, link, editor, caller, args, incoming, crc, addr, sequence, progress, ret>>

Next ==
    \/ Call_info
    \/ Call_send
    \/ Call_reboot
    \/ Connect
    \/ Startup
    \/ GetInformationSend
    \/ GetInformationReceive
    \/ ProgressStart
    \/ SetHostModeSend
    \/ SetHostModeReceive
    \/ SetKeyCode
    \/ UploadChunk
    \/ SetInformation
    \/ Restart
    \/ SetTimeLimit
    \/ HostPoke
    \/ Return

Spec == Init /\ [][Next]_vars

(***************************************************************************)
(* One packet on the stream: __send_packet, __recv_packet and __read, one  *)
(* sock.send or sock.recv per step, in a session that is connected.        *)
(***************************************************************************)
session == <<config, args, locals, sockvars, pc, sent, incoming, progress, result, exc, ret,
             caller, editor>>

LinkInit ==
    /\ target = "naomi"
    /\ version = "UNKNOWN"
    /\ sock = "None"
    /\ nsockets = 0
    /\ nclosed = 0
    /\ op = "none"
    /\ pc = "idle"
    /\ data = <<>>
    /\ key = NoKey
    /\ cb = NoCallback
    /\ sent = <<>>
    /\ incoming = NoIncoming
    /\ crc = Zero32
    /\ addr = 0
    /\ sequence = 1
    /\ poked = 0
    /\ progress = <<>>
    /\ result = "none"
    /\ exc = "none"
    /\ ret = NoInfo
    /\ tx = NoTx
    /\ rx = NoRx
    /\ dev = Device(0)
    /\ given = [target |-> target, version |-> version]
    /\ told = "none"
    /\ NoEditor

\* __send_packet(packet): one sock.send of header + payload; the count
\* sock.send returns is dropped and the method returns
SendPacket ==
    /\ tx.phase = "idle"
    /\ rx.pc = "idle"
    /\ \E packet \in LinkPackets :
         LET buf == send_packet(packet) IN
         \E n \in SendResults(Len(buf)) :
            tx' = [phase |-> "returned", packet |-> packet, buf |-> buf, accepted |-> n]
    /\ UNCHANGED <<session, rx, dev>>

\* __recv_packet is entered: __read(4) starts with res = [] and left = 4.
\* The stream carries the frame just encoded, or a beginning of it.
RecvPacket ==
    /\ tx.phase = "returned"
    /\ rx.pc = "idle"
    /\ \E cut \in StreamCuts(Len(tx.buf)) : \E end \in StreamEnds(cut, Len(tx.buf)) :
         rx' = [NoRx EXCEPT !.pc = "header", !.stream = SubSeq(tx.buf, 1, cut),
                            !.end = end, !.left = 4]
    /\ UNCHANGED <<session, tx, dev>>

\* __recv_packet once a __read returned r.res: after the header, the payload
\* is read if the length is not 0; then the packet is complete
read_returned(r) ==
    IF r.pc = "header"
    THEN LET length == UnpackU16(r.res, 0) IN
         IF length > 0
         THEN [r EXCEPT !.pc = "payload", !.header = r.res, !.left = length,
                        !.res = <<>>, !.short = 0]
         ELSE [r EXCEPT !.pc = "done", !.header = r.res,
                        !.packet = NetDimmPacket(r.res[4], r.res[3], <<>>)]
    ELSE [r EXCEPT !.pc = "done",
                   !.packet = NetDimmPacket(r.header[4], r.header[3], r.res)]

\* one turn of the loop of __read when bytes are waiting: recv(left) returns
\* some of them, left goes down, the bytes are appended
RecvBytes ==
    /\ rx.pc \in {"header", "payload"}
    /\ rx.off < Len(rx.stream)
    /\ \E k \in RecvSizes(rx.left, Len(rx.stream) - rx.off, rx.short) :
         LET got == SubSeq(rx.stream, rx.off + 1, rx.off + k)
             r   == [rx EXCEPT !.off = @ + k, !.left = @ - k, !.res = @ \o got,
                               !.short = IF k < rx.left THEN @ + 1 ELSE @]
         IN  rx' = IF r.left > 0 THEN r ELSE read_returned(r)
    /\ UNCHANGED <<session, tx, dev>>

\* one turn of the loop of __read after the peer closed the stream: recv
\* returns b'', left -= 0, and the loop goes round again
RecvEmpty ==
    /\ rx.pc \in {"header", "payload"}
    /\ rx.off = Len(rx.stream)
    /\ rx.end = "eof"
    /\ rx.empty < MaxEmptyReads
    /\ rx' = [rx EXCEPT !.empty = @ + 1]
    /\ UNCHANGED <<session, tx, dev>>

\* one turn of the loop of __read when nothing arrives within the socket
\* timeout: recv raises, and so do __read and __recv_packet
RecvTimeout ==
    /\ rx.pc \in {"header", "payload"}
    /\ rx.off = Len(rx.stream)
    /\ rx.end = "timeout"
    /\ rx' = [rx EXCEPT !.pc = "raised"]
    /\ UNCHANGED <<session, tx, dev>>

\* __recv_packet is over (it returned the packet or raised); next packet
RecvPacketReturn ==
    /\ rx.pc \in {"done", "raised"}
    /\ tx' = NoTx
    /\ rx' = NoRx
    /\ UNCHANGED <<session, dev>>

LinkNext ==
    \/ SendPacket
    \/ RecvPacket
    \/ RecvBytes
    \/ RecvEmpty
    \/ RecvTimeout
    \/ RecvPacketReturn

LinkSpec == LinkInit /\ [][LinkNext]_vars

(***************************************************************************)
(* Host-mode exchanges with a device that keeps a mode register.           *)
(***************************************************************************)
DeviceInit ==
    /\ target = "naomi"
    /\ version = "UNKNOWN"
    /\ sock = "None"
    /\ nsockets = 0
    /\ nclosed = 0
    /\ op = "none"
    /\ pc = "idle"
    /\ data = <<>>
    /\ key = NoKey
    /\ cb = NoCallback
    /\ sent = <<>>
    /\ incoming = NoIncoming
    /\ crc = Zero32
    /\ addr = 0
    /\ sequence = 1
    /\ poked = 0
    /\ progress = <<>>
    /\ result = "none"
    /\ exc = "none"
    /\ ret = NoInfo
    /\ tx = NoTx
    /\ rx = NoRx
    /\ dev \in {Device(m) : m \in DeviceModes}
    /\ given = [target |-> target, version |-> version]
    /\ told = "none"
    /\ NoEditor

\* __get_host_mode(): the request goes out, the device applies it to its
\* register and replies, the reply is received, checked and its low byte returned
GetHostMode ==
    /\ \E junk \in ReplyJunk :
         LET req == send_packet(get_host_mode_packet)
             new == device_host_mode(dev.mode, req)
             r   == exchange_host_mode_reply(device_host_mode_reply(new, junk))
         IN  dev' = [mode |-> new, last |-> "get", arg |-> 0, old |-> dev.mode,
                     value |-> r.value, exc |-> r.exc,
                     before |-> IF dev.last = "get" THEN dev.value ELSE -1]
    /\ UNCHANGED <<session, tx, rx>>

\* __set_host_mode(mode): the same exchange, its value dropped
SetHostMode ==
    /\ \E mode \in HostModes, junk \in ReplyJunk :
         LET req == send_packet(set_host_mode_packet(mode))
             new == device_host_mode(dev.mode, req)
             r   == exchange_host_mode_reply(device_host_mode_reply(new, junk))
         IN  dev' = [mode |-> new, last |-> "set", arg |-> mode, old |-> dev.mode,
                     value |-> -1, exc |-> r.exc, before |-> -1]
    /\ UNCHANGED <<session, tx, rx>>

DeviceNext ==
    \/ GetHostMode
    \/ SetHostMode

DeviceSpec == DeviceInit /\ [][DeviceNext]_vars

(***************************************************************************)
(* The settings editor at work: run(), the input events, the quit dialog.  *)
(***************************************************************************)
netdimm == <<config, args, locals, sockvars, pc, sent, incoming, progress, result, exc, ret,
             caller, link>>

\* SettingsEditor.__init__ on one of the wrappers
EditorInit ==
    /\ target = "naomi"
    /\ version = "UNKNOWN"
    /\ sock = "None"
    /\ nsockets = 0
    /\ nclosed = 0
    /\ op = "none"
    /\ pc = "idle"
    /\ data = <<>>
    /\ key = NoKey
    /\ cb = NoCallback
    /\ sent = <<>>
    /\ incoming = NoIncoming
    /\ crc = Zero32
    /\ addr = 0
    /\ sequence = 1
    /\ poked = 0
    /\ progress = <<>>
    /\ result = "none"
    /\ exc = "none"
    /\ ret = NoInfo
    /\ tx = NoTx
    /\ rx = NoRx
    /\ dev = Device(0)
    /\ given = [target |-> target, version |-> version]
    /\ told = "none"
    /\ settings \in Wrappers
    /\ before = <<>>
    /\ context = NoContext
    /\ loop = "none"
    /\ dialog = FALSE
    /\ selected = 0
    /\ invert = <<>>
    /\ inputs = <<>>
    /\ last = NoEvent

\* lines 334-337 and EditorScene.create: the context gets a deep copy of the
\* settings, the scene its tab component with one settings component a tab
Run ==
    /\ loop = "none"
    /\ settings # <<>>
    /\ before' = settings
    /\ context' = [NoContext EXCEPT !.object = deepcopy(CallerObject), !.settings = settings]
    /\ selected' = 0
    /\ invert' = highlight(0)
    /\ inputs' = [t \in Tabs |-> new_inputs(settings[t])]
    /\ loop' = "running"
    /\ UNCHANGED <<netdimm, settings, dialog, last>>

\* the editor takes input: the loop runs and the quit dialog is not up
Editing == loop = "running" /\ ~dialog

\* what an event finds
Found(event, to) ==
    [event |-> event, selected |-> selected, inputs |-> inputs,
     settings |-> context.settings, to |-> to, dialog |-> dialog]

\* TabComponent.handle_input, lines 100-106: TAB
KeyTab ==
    /\ Editing
    /\ selected' = next_tab(selected, Cardinality(Tabs))
    /\ invert' = highlight(selected')
    /\ last' = Found("TAB", {})
    /\ UNCHANGED <<netdimm, settings, before, context, loop, dialog, inputs>>

\* a click on the button of tab t: __change_tab, lines 68-76
ClickTab ==
    /\ Editing
    /\ \E t \in Tabs :
         /\ selected' = t - 1
         /\ invert' = highlight(selected')
    /\ last' = Found("click tab", {})
    /\ UNCHANGED <<netdimm, settings, before, context, loop, dialog, inputs>>

\* lines 108-111 and SettingsComponent.handle_input: an event no button
\* handled goes to the content of the selected tab; changed[t] is what it
\* makes of the inputs of tab t, and sync tells whether lines 213-222 are
\* reached
Forward(event, changed, sync, asks) ==
    LET to == input_targets(selected) IN
    /\ inputs' = [t \in Tabs |-> IF t \in to THEN changed[t] ELSE inputs[t]]
    /\ context' = [context EXCEPT !.settings =
                      [t \in Tabs |-> IF t \in to /\ sync
                                      THEN sync_settings(context.settings[t], inputs'[t])
                                      ELSE context.settings[t]]]
    /\ settings' = IF context.object = CallerObject THEN context'.settings ELSE settings
    /\ dialog' = asks
    /\ last' = Found(event, to)
    /\ UNCHANGED <<netdimm, before, loop, selected, invert>>

\* lines 198-204: UP
KeyUp ==
    /\ Editing
    /\ Forward("UP", [t \in Tabs |-> focus_after_up(inputs[t])], FALSE, FALSE)

\* lines 205-211: DOWN
KeyDown ==
    /\ Editing
    /\ Forward("DOWN", [t \in Tabs |-> focus_after_down(inputs[t])], FALSE, FALSE)

\* LEFT or RIGHT: line 213 hands the key to the inputs, the focused one
\* takes it; then the settings follow the inputs
KeyLeftRight ==
    /\ Editing
    /\ \E dir \in {"LEFT", "RIGHT"} :
         Forward(dir, [t \in Tabs |->
                         [i \in 1..Len(inputs[t]) |-> select_step(inputs[t][i], dir)]],
                 TRUE, FALSE)

\* a click on input c of the selected tab with a mouse button: the click
\* handler, then the input itself, where a left click lets the user pick
\* any of its options
ClickInput ==
    /\ Editing
    /\ \E c \in 1..Len(inputs[selected + 1]), button \in {"LEFT", "RIGHT"} :
       \E pick \in 1..Len(inputs[selected + 1][c].options) :
         LET Clicked(t) ==
                IF c > Len(inputs[t]) THEN inputs[t]
                ELSE LET clicked == click_select(inputs[t], c, button) IN
                     IF button = "LEFT" /\ pick <= Len(clicked[c].options)
                     THEN [clicked EXCEPT ![c].selected = clicked[c].options[pick]]
                     ELSE clicked
         IN  Forward("click input", [t \in Tabs |-> Clicked(t)], TRUE, FALSE)

\* a key that nothing handles: it goes through the content of the selected
\* tab and the scene drops it
KeyOther ==
    /\ Editing
    /\ Forward("key", inputs, TRUE, FALSE)

\* EditorScene.handle_input, lines 319-325: q, which no component handled,
\* brings up the quit dialog
KeyQ ==
    /\ Editing
    /\ Forward("q", inputs, TRUE, TRUE)

\* __handle_label_click, lines 283-296: a left click on "q - quit" in the
\* label brings up the quit dialog
ClickQuit ==
    /\ Editing
    /\ dialog' = TRUE
    /\ last' = Found("click quit", {})
    /\ UNCHANGED <<netdimm, settings, before, context, loop, selected, invert, inputs>>

\* the quit dialog, lines 298-317: Yes copies the edited settings to
\* 'newsettings' (a deep copy taken when the loop is about to end, so its
\* value is all that is kept of it) and leaves the loop, No leaves the loop,
\* Cancel unregisters the dialog
Answer ==
    /\ loop = "running"
    /\ dialog
    /\ \E option \in {"Yes", "No", "Cancel"} :
         /\ context' = IF dialog_saves(option)
                       THEN [context EXCEPT !.newsettings = context.settings,
                                            !.saved = TRUE]
                       ELSE context
         /\ loop' = IF dialog_exits(option) THEN "exited" ELSE loop
         /\ dialog' = IF option = "Cancel" THEN FALSE ELSE dialog
         /\ last' = Found(option, {})
    /\ UNCHANGED <<netdimm, settings, before, selected, invert, inputs>>

\* lines 339-351: execute() is over; if 'newsettings' is in the context its
\* current values are copied out by name, group by group
RunReturns ==
    /\ loop = "exited"
    /\ settings' = IF context.saved
                   THEN [t \in Tabs |-> copy_out(settings[t], context.newsettings[t])]
                   ELSE settings
    /\ loop' = "returned"
    /\ UNCHANGED <<netdimm, before, context, dialog, selected, invert, inputs, last>>

EditorNext ==
    \/ Run
    \/ KeyTab
    \/ ClickTab
    \/ KeyUp
    \/ KeyDown
    \/ KeyLeftRight
    \/ ClickInput
    \/ KeyOther
    \/ KeyQ
    \/ ClickQuit
    \/ Answer
    \/ RunReturns

EditorSpec == EditorInit /\ [][EditorNext]_vars

(***************************************************************************)
(* Reading the frames that were sent.                                      *)
(***************************************************************************)
IsChunk(f)   == FramePktid(f) = 4
IsSetInfo(f) == FramePktid(f) = 25

\* the upload chunks sent so far, in order
Chunks == SelectSeq(sent, IsChunk)

ChunkSequence(f) == UnpackU32(FramePayload(f), 0)
ChunkAddr(f)     == UnpackU32(FramePayload(f), 4)
ChunkData(f)     == SubSeq(FramePayload(f), 11, Len(FramePayload(f)))

SetInfoCrc(f)    == Word(FramePayload(f), 0)
SetInfoLength(f) == Word(FramePayload(f), 4)

\* the data bytes of the first n chunks, concatenated
RECURSIVE Stream(_, _)
Stream(chunks, n) ==
    IF n = 0 THEN <<>> ELSE Stream(chunks, n - 1) \o ChunkData(chunks[n])

SetInfoFrames == {i \in 1..Len(sent) : IsSetInfo(sent[i])}

SendReturned == op = "send" /\ pc = "done" /\ result = "returned"

(***************************************************************************)
(* C1.  When a public operation has returned or raised, the socket it      *)
(* created has been closed exactly once.                                   *)
(***************************************************************************)
C1_SocketClosedOnce ==
    (pc = "done" /\ nsockets = 1) => nclosed = 1

(***************************************************************************)
(* C2.  A reply whose packet id is not the request's, or whose payload     *)
(* length is not the expected one (12 for get-info, 4 for the mode         *)
(* exchanges), makes the command fail with a protocol error: nothing is    *)
(* returned, nothing more is sent, and the socket is closed.  The          *)
(* dimm-mode exchange is called by no public operation; its check is       *)
(* stated on the answers the device may give.                              *)
(***************************************************************************)
Mismatch(packet, pktid, length) == packet.pktid # pktid \/ Len(packet.data) # length

C2_ReplyMismatchIsProtocolError ==
    /\ \A in \in HostModeAnswers \cup InfoAnswers :
          (recv_packet(in).status = "ok" /\ Mismatch(recv_packet(in).packet, 8, 4))
              => exchange_dimm_mode_reply(in) = [exc |-> "Protocol", value |-> -1]
    /\ (op = "info" /\ recv_packet(incoming).status = "ok"
                    /\ Mismatch(recv_packet(incoming).packet, 24, 12))
          => /\ pc = "done" /\ result = "raised" /\ exc = "Protocol"
             /\ ret = NoInfo
             /\ sock = "None" /\ nclosed = 1
             /\ Len(sent) = 2
    /\ (op = "send" /\ recv_packet(incoming).status = "ok"
                    /\ Mismatch(recv_packet(incoming).packet, 7, 4))
          => /\ pc = "done" /\ result = "raised" /\ exc = "Protocol"
             /\ sock = "None" /\ nclosed = 1
             /\ Len(sent) = 2

\* info got a 0x19 header in answer to 0x18
C2_Witness ==
    /\ op = "info" /\ pc = "done" /\ exc = "Protocol"
    /\ recv_packet(incoming).status = "ok"
    /\ recv_packet(incoming).packet.pktid = 25

(***************************************************************************)
(* C3.  In every completed upload the chunks go out in ascending address   *)
(* order from 0, each address being the sum of the data lengths before     *)
(* it; every chunk but the final one carries ChunkSize data bytes; exactly *)
(* one chunk carries flags 0x81, the final one, the others carry 0x80.     *)
(***************************************************************************)
C3_ChunkOrderAndLastFlag ==
    SendReturned =>
        /\ Cardinality({i \in 1..Len(Chunks) : FrameFlags(Chunks[i]) = 129}) = 1
        /\ FrameFlags(Chunks[Len(Chunks)]) = 129
        /\ ChunkAddr(Chunks[1]) = 0
        /\ \A i \in 1..Len(Chunks) :
              /\ ChunkAddr(Chunks[i]) = Len(Stream(Chunks, i - 1))
              /\ i < Len(Chunks) => /\ Len(ChunkData(Chunks[i])) = ChunkSize
                                    /\ FrameFlags(Chunks[i]) = 128
                                    /\ ChunkAddr(Chunks[i]) < ChunkAddr(Chunks[i + 1])

(***************************************************************************)
(* C4.  The CRC of the set-info packet is the one's complement of the      *)
(* CRC32 of the chunk data actually sent, taken as one stream; during the  *)
(* upload the running crc is the CRC32 of the data sent so far.  The data  *)
(* sent are the slices as encrypted under the key, the plain slices        *)
(* without one.                                                            *)
(***************************************************************************)
C4_CrcOverSentStream ==
    /\ \A i \in SetInfoFrames :
          SetInfoCrc(sent[i]) = Not32(crc32(Stream(Chunks, Len(Chunks)), Zero32))
    /\ (op = "send" /\ pc = "upload_file") =>
          crc = crc32(Stream(Chunks, Len(Chunks)), Zero32)
    /\ (op = "send" /\ ~KeyTruthy(key)) =>
          Stream(Chunks, Len(Chunks)) = SubSeq(data, 1, Len(Stream(Chunks, Len(Chunks))))
    /\ (op = "send" /\ KeyTruthy(key)) =>
          \A i \in 1..Len(Chunks) :
              ChunkData(Chunks[i]) = encrypt(key, Slice(data, ChunkAddr(Chunks[i])))

\* an encrypted upload of two chunks or more has completed
C4_Witness ==
    /\ SendReturned /\ KeyTruthy(key) /\ Len(Chunks) >= 2
    /\ SetInfoFrames # {}

C6_SequenceContiguous ==
    \A i \in 1..Len(Chunks) :
        /\ ChunkSequence(Chunks[i]) = i
        /\ ChunkSequence(Chunks[i]) = (ChunkAddr(Chunks[i]) \div ChunkSize) + 1

\* the third chunk of an upload has been sent
C6_Witness ==
    /\ Len(Chunks) = 3
    /\ ChunkSequence(Chunks[3]) = 3

(***************************************************************************)
(* C7.  send with a key that is given but not 8 bytes long fails before    *)
(* any I/O: no socket is created, no packet is sent, and the call does     *)
(* not succeed.                                                            *)
(***************************************************************************)
C7_BadKeyRejectedBeforeIO ==
    (op = "send" /\ key.given /\ Len(key.bytes) # 8) =>
        /\ nsockets = 0
        /\ sent = <<>>
        /\ result # "returned"

(***************************************************************************)
(* C8.  send with an 8-byte key and a payload whose length is not a        *)
(* multiple of 8 is rejected before any I/O; in particular no upload chunk *)
(* of that payload is sent, and the call does not succeed.                 *)
(***************************************************************************)
C8_UnalignedRejectedBeforeUpload ==
    (op = "send" /\ key.given /\ Len(key.bytes) = 8 /\ Len(data) % 8 # 0) =>
        /\ Chunks = <<>>
        /\ result # "returned"

(***************************************************************************)
(* C9.  send with empty data fails: it does not complete as a successful   *)
(* upload, and no set-info packet is sent for it.                          *)
(***************************************************************************)
C9_EmptyDataRejected ==
    (op = "send" /\ Len(data) = 0) =>
        /\ result # "returned"
        /\ SetInfoFrames = {}

(***************************************************************************)
(* C10.  A successful send has sent, in this order: the startup no-op,     *)
(* the host-mode exchange setting mode 1, the key code (the key, or eight  *)
(* zero bytes), the upload chunks, set-info; then the socket is closed.    *)
(* The reply of the exchange is received before anything further is sent,  *)
(* and no chunk is sent before the key code.                               *)
(***************************************************************************)
C10_SendOrder ==
    op = "send" =>
        /\ pc = "set_host_mode_reply" => Len(sent) = 2
        /\ Len(sent) >= 3 => exchange_host_mode_reply(incoming).exc = "none"
        /\ \A i \in 1..Len(sent) :
              IsChunk(sent[i]) => (i > 3 /\ FramePktid(sent[3]) = 127)
        /\ nclosed > 0 => pc = "done"
        /\ SendReturned =>
              /\ Len(sent) >= 4
              /\ sent[1] = <<0, 0, 0, 1>>
              /\ sent[2] = <<4, 0, 0, 7, 1, 0, 0, 0>>
              /\ sent[3] = <<8, 0, 0, 127>> \o
                               (IF KeyTruthy(key) THEN key.bytes ELSE <<0, 0, 0, 0, 0, 0, 0, 0>>)
              /\ \A i \in 4..(Len(sent) - 1) : IsChunk(sent[i])
              /\ IsSetInfo(sent[Len(sent)])
              /\ sock = "None" /\ nclosed = 1

\* a send with the key 01..08 has completed
C10_Witness ==
    /\ SendReturned
    /\ key.bytes = <<1, 2, 3, 4, 5, 6, 7, 8>>
    /\ Len(sent) >= 5

(***************************************************************************)
(* C11.  reboot sends, after the startup no-op, restart (0x0A), then       *)
(* set-time-limit (0x17) with the value 10, then the pokes (0x11), which   *)
(* only a Triforce target gets, and then closes the socket; it never       *)
(* receives anything from the device.                                      *)
(***************************************************************************)
RebootReturned == op = "reboot" /\ pc = "done" /\ result = "returned"

C11_RebootOrder ==
    op = "reboot" =>
        /\ incoming = NoIncoming
        /\ pc \notin {"get_information_reply", "set_host_mode_reply", "hung"}
        /\ \A i \in 1..Len(sent) :
              /\ i = 1 => sent[i] = <<0, 0, 0, 1>>
              /\ i = 2 => sent[i] = <<0, 0, 0, 10>>
              /\ i = 3 => sent[i] = <<4, 0, 0, 23, 10, 0, 0, 0>>
              /\ i > 3 => (FramePktid(sent[i]) = 17 /\ target = "triforce")
        /\ nclosed > 0 => pc = "done"
        /\ RebootReturned => (Len(sent) >= 3 /\ sock = "None" /\ nclosed = 1)

\* a reboot of a Triforce has sent its pokes and returned
C11_Witness ==
    /\ RebootReturned /\ target = "triforce"
    /\ Len(sent) > 3

(***************************************************************************)
(* C12.  A host poke is sent only to a Triforce whose configured firmware  *)
(* is 1.07, 2.03, 2.15 or 3.01.  For every other configuration reboot      *)
(* sends restart and set-time-limit, no poke, and returns without error    *)
(* once the time limit is sent.                                            *)
(***************************************************************************)
PatchedVersions == {"1.07", "2.03", "2.15", "3.01"}

C12_PokesOnlyForListedTriforce ==
    /\ (\E i \in 1..Len(sent) : FramePktid(sent[i]) = 17)
          => (op = "reboot" /\ target = "triforce" /\ version \in PatchedVersions)
    /\ (op = "reboot" /\ ~(target = "triforce" /\ version \in PatchedVersions))
          => /\ Len(sent) <= 3
             /\ Len(sent) = 3 => (pc = "done" /\ result = "returned" /\ exc = "none")
             /\ RebootReturned =>
                   sent = << <<0, 0, 0, 1>>, <<0, 0, 0, 10>>, <<4, 0, 0, 23, 10, 0, 0, 0>> >>

\* a Triforce with firmware 4.02 was rebooted without a poke
C12_Witness ==
    /\ RebootReturned /\ target = "triforce" /\ version = "4.02"
    /\ Len(sent) = 3

(***************************************************************************)
(* C13.  The pokes of the patch: for 3.01 one poke, 0x4800001C at          *)
(* 0x8000DC5C; for 1.07, 2.03 and 2.15 four pokes, 0x4E800020 at base,     *)
(* 0x38600000 at base + 4, 0x4E800020 at base + 8, 0x60000000 at           *)
(* base + 12, base being 0x8000D8A0 for 1.07 and 0x8000CC6C for 2.03 and   *)
(* 2.15.                                                                   *)
(***************************************************************************)
PokeFrame(addrword, dataword) == <<12, 0, 0, 17>> \o addrword \o <<0, 0, 0, 0>> \o dataword

ExpectedPokes(ver) ==
    CASE ver = "3.01" -> << PokeFrame(<<92, 220, 0, 128>>, <<28, 0, 0, 72>>) >>
      [] ver = "1.07" -> << PokeFrame(<<160, 216, 0, 128>>, <<32, 0, 128, 78>>),
                            PokeFrame(<<164, 216, 0, 128>>, <<0, 0, 96, 56>>),
                            PokeFrame(<<168, 216, 0, 128>>, <<32, 0, 128, 78>>),
                            PokeFrame(<<172, 216, 0, 128>>, <<0, 0, 0, 96>>) >>
      [] ver \in {"2.03", "2.15"} ->
                         << PokeFrame(<<108, 204, 0, 128>>, <<32, 0, 128, 78>>),
                            PokeFrame(<<112, 204, 0, 128>>, <<0, 0, 96, 56>>),
                            PokeFrame(<<116, 204, 0, 128>>, <<32, 0, 128, 78>>),
                            PokeFrame(<<120, 204, 0, 128>>, <<0, 0, 0, 96>>) >>
      [] OTHER -> <<>>

C13_PatchPokes ==
    (op = "reboot" /\ target = "triforce") =>
        /\ Len(sent) > 3 =>
              /\ Len(sent) - 3 <= Len(ExpectedPokes(version))
              /\ SubSeq(sent, 4, Len(sent)) = SubSeq(ExpectedPokes(version), 1, Len(sent) - 3)
        /\ RebootReturned => SubSeq(sent, 4, Len(sent)) = ExpectedPokes(version)

\* a Triforce with firmware 1.07 got its four pokes
C13_Witness ==
    /\ RebootReturned /\ target = "triforce" /\ version = "1.07"
    /\ Len(sent) = 7

(***************************************************************************)
(* C16.  info returns the fields of the 12-byte reply: memory_size is the  *)
(* fourth u16, current_game_crc the u32, available_game_memory the third   *)
(* u16 times 2^20, and the firmware tag is the member whose string is      *)
(* major.minor (high and low byte of the second u16, the minor with at     *)
(* least two digits), UNKNOWN when there is none.                          *)
(***************************************************************************)
InfoReturned == op = "info" /\ pc = "done" /\ result = "returned"

C16_InfoDecode ==
    InfoReturned =>
        LET p     == SubSeq(incoming.bytes, 5, 16)
            major == p[4]
            minor == p[3]
            mb    == p[5] + 256 * p[6]
            agm   == ret.available_game_memory
        IN  /\ ret.memory_size = p[7] + 256 * p[8]
            /\ ret.current_game_crc = <<p[9], p[10], p[11], p[12]>>
            /\ Len(agm) = 5 /\ agm[1] = 0 /\ agm[2] = 0
            /\ agm[3] + 256 * agm[4] + 65536 * agm[5] = mb * 16
            /\ \A i \in 1..5 : agm[i] \in Byte
            /\ ret.firmware_version =
                  (CASE major = 1 /\ minor = 7  -> "1.07"
                     [] major = 2 /\ minor = 3  -> "2.03"
                     [] major = 2 /\ minor = 15 -> "2.15"
                     [] major = 3 /\ minor = 1  -> "3.01"
                     [] major = 4 /\ minor = 1  -> "4.01"
                     [] major = 4 /\ minor = 2  -> "4.02"
                     [] OTHER -> "UNKNOWN")

\* info decoded a reply of firmware 1.07 with 0xFFFF MB of game memory
C16_Witness ==
    /\ InfoReturned
    /\ ret.firmware_version = "1.07"
    /\ ret.available_game_memory = <<0, 0, 240, 255, 15>>

(***************************************************************************)
(* C19.  In every session the first packet written after the connection    *)
(* is made is the startup no-op (id 0x01, flags 0, no payload); it is      *)
(* written once, and before any command packet.                            *)
(***************************************************************************)
C19_StartupFirstAndOnce ==
    /\ sent # <<>> => (sent[1] = <<0, 0, 0, 1>> /\ nsockets = 1)
    /\ \A i \in 2..Len(sent) : FramePktid(sent[i]) # 1
    /\ pc = "startup" => (sent = <<>> /\ sock = "connected")
    /\ pc \notin {"idle", "connect", "startup", "done"} => Len(sent) >= 1

\* info has written the no-op and its request
C19_Witness ==
    /\ op = "info" /\ pc = "get_information_reply"
    /\ Len(sent) = 2

(***************************************************************************)
(* C20.  With a progress callback, send calls it with (0, len(data))       *)
(* before the host-mode exchange and then once per chunk with              *)
(* (addr, len(data)) right before the chunk is sent.  The done values      *)
(* never decrease, each one is the address of a chunk (a multiple of the   *)
(* chunk size, below total when the payload is not empty), and total is    *)
(* the same in every call.  Without a callback nothing is called.          *)
(***************************************************************************)
C20_ProgressCalls ==
    /\ ~cb.present => progress = <<>>
    /\ (op = "send" /\ cb.present) =>
          /\ Len(sent) >= 2 => Len(progress) >= 1
          /\ progress # <<>> => progress[1] = <<0, Len(data)>>
          /\ \A i \in 1..Len(Chunks) :
                /\ Len(progress) >= i + 1
                /\ progress[i + 1] = <<ChunkAddr(Chunks[i]), Len(data)>>
          /\ Len(progress) <= Len(Chunks) + 2
          /\ Len(progress) = Len(Chunks) + 2 => (pc = "done" /\ result = "raised")
          /\ \A i \in 1..Len(progress) :
                /\ progress[i][2] = Len(data)
                /\ progress[i][1] % ChunkSize = 0
                /\ Len(data) > 0 => (0 <= progress[i][1] /\ progress[i][1] < Len(data))
                /\ i > 1 => progress[i - 1][1] <= progress[i][1]

\* a send of three chunks has reported each of them
C20_Witness ==
    /\ SendReturned /\ cb.present
    /\ Len(progress) = 4
    /\ progress[4][1] = 2 * ChunkSize


(***************************************************************************)
(* The frame codec, the host-mode exchange, and the stream.                *)
(***************************************************************************)
\* C14: for every packet with id and flags in 0..255 and a payload of at
\* most 65535 bytes (the empty one included), decoding the bytes the encoder
\* produced gives back the same id, flags and payload, and the 16-bit length
\* field of the header is the payload's byte count.
C14_FrameRoundTrip ==
    /\ tx.phase = "returned" =>
         /\ FrameLength(tx.buf) = Len(tx.packet.data)
         /\ recv_packet(Incoming(tx.buf, "timeout")) = [status |-> "ok", packet |-> tx.packet]
    /\ (rx.pc = "done" /\ rx.stream = tx.buf) => rx.packet = tx.packet

\* a packet whose length needs the second byte of the length field was sent
\* and decoded again from the stream, in short reads
C14_Witness ==
    /\ rx.pc = "done"
    /\ rx.stream = tx.buf
    /\ rx.short > 0
    /\ Len(tx.packet.data) = 256
    /\ tx.packet.pktid = 255
    /\ tx.packet.flags = 129

\* C15: against a device that computes new = (old & mask) | set and replies
\* new & 0xFF, the host-mode query leaves the device's mode as it was and
\* returns it, so a query repeated returns the same value again; and setting
\* mode M leaves the device in mode M & 0xFF whatever the old mode was.
C15_HostModeExchange ==
    /\ dev.last = "get" =>
         /\ dev.exc = "none"
         /\ dev.mode = dev.old
         /\ dev.value = dev.old
    /\ (dev.last = "get" /\ dev.before # -1) => dev.value = dev.before
    /\ dev.last = "set" =>
         /\ dev.exc = "none"
         /\ dev.mode = dev.arg % 256

\* a query was repeated on a device whose mode is neither 0 nor 255
C15_Witness ==
    /\ dev.last = "get"
    /\ dev.before # -1
    /\ dev.mode = 10

\* C17: a read of N bytes returns exactly N bytes or ends by raising; when
\* the peer has closed the stream before the N bytes arrived (recv returned
\* b'' with bytes still missing), the read has raised.
C17_ReadExactOrError ==
    /\ rx.pc = "done" => Len(rx.header) = 4 /\ Len(rx.packet.data) = UnpackU16(rx.header, 0)
    /\ rx.empty > 0 => rx.pc = "raised"

\* C18: a __send_packet that returned has written the whole buffer, header
\* and payload, to the stream.
C18_WholeBufferWritten ==
    tx.phase = "returned" => tx.accepted = Len(tx.buf)


(***************************************************************************)
(* Errors, the key code, and the facade's configuration.                   *)
(***************************************************************************)
\* the frames of the 0x7F command sent so far
IsKeyCode(f) == FramePktid(f) = 127
KeyCodes == SelectSeq(sent, IsKeyCode)

\* the plain bytes the chunks sent so far stand for
PlainSent == SubSeq(data, 1, Len(Stream(Chunks, Len(Chunks))))

\* what the plain bytes sent so far are under the caller's key, slice by slice
RECURSIVE EncryptedUpTo(_, _, _)
EncryptedUpTo(k, d, n) ==
    IF n = 0 THEN <<>>
    ELSE LET from == ((n - 1) \div ChunkSize) * ChunkSize
         IN  EncryptedUpTo(k, d, from) \o
             Reverse(des_encrypt(Reverse(k), Reverse(SubSeq(d, from + 1, n))))

\* C21: when a step of a public operation fails (the connect, a reply that
\* does not match, a read that times out, a key that is not 8 bytes, a
\* progress callback that raises), the operation has raised to the caller
\* and has sent nothing after the failing step, and it connected once only;
\* set-info is sent only after every chunk of the data was sent.
C21_ErrorsSurface ==
    /\ nsockets <= 1
    /\ exc # "none" => (pc = "done" /\ result = "raised" /\ ret = NoInfo)
    /\ exc = "Connect" => (sent = <<>> /\ nsockets = 1)
    /\ (incoming # NoIncoming /\ recv_packet(incoming).status = "timeout")
          => (pc = "done" /\ result = "raised" /\ exc = "IO" /\ Len(sent) = 2)
    /\ (incoming # NoIncoming /\ recv_packet(incoming).status = "ok"
          /\ Mismatch(recv_packet(incoming).packet, IF op = "info" THEN 24 ELSE 7,
                      IF op = "info" THEN 12 ELSE 4))
          => (pc = "done" /\ result = "raised" /\ exc = "Protocol" /\ Len(sent) = 2)
    /\ (op = "send" /\ KeyTruthy(key) /\ Len(key.bytes) # 8)
          => /\ Len(sent) <= 2
             /\ pc \notin {"upload_file", "set_key_code"} \/ pc = "set_key_code"
             /\ (pc = "done" /\ exc \notin {"Callback", "IO", "Protocol", "Connect"})
                   => (result = "raised" /\ exc = "KeyLength" /\ Len(sent) = 2)
    /\ (cb.present /\ cb.raiseAt > 0 /\ Len(progress) >= cb.raiseAt)
          => /\ pc = "done" /\ result = "raised" /\ exc = "Callback"
             /\ Len(progress) = cb.raiseAt
             /\ Len(sent) = IF cb.raiseAt = 1 THEN 1 ELSE cb.raiseAt + 1
             /\ SetInfoFrames = {}
    /\ SetInfoFrames # {} => Len(Stream(Chunks, Len(Chunks))) = Len(data)

\* the callback raised on its call for the second chunk: one chunk is out,
\* and no set-info
C21_Witness ==
    /\ op = "send" /\ result = "raised" /\ exc = "Callback"
    /\ Len(Chunks) = 1
    /\ Len(data) > ChunkSize
    /\ SetInfoFrames = {}

\* C22: in every send the key code and the chunks agree: the key code is
\* eight zero bytes if and only if the chunks carry the data as it is, and
\* it is the caller's 8 key bytes if and only if the chunks carry the data
\* encrypted under that key.
C22_KeyCodeAndChunksAgree ==
    (op = "send" /\ Len(Chunks) > 0) =>
        /\ Len(KeyCodes) = 1
        /\ (FramePayload(KeyCodes[1]) = <<0, 0, 0, 0, 0, 0, 0, 0>>)
              <=> (Stream(Chunks, Len(Chunks)) = PlainSent)
        /\ (key.given /\ FramePayload(KeyCodes[1]) = key.bytes)
              <=> (key.given /\ Len(key.bytes) = 8
                   /\ Stream(Chunks, Len(Chunks)) = EncryptedUpTo(key.bytes, data, Len(PlainSent)))

\* C23: every public operation leaves target and version as __init__ set
\* them; after info() returned a firmware version, the reboot that follows
\* pokes by the version given at construction.
C23_ConfigurationKept ==
    /\ target = given.target
    /\ version = given.version
    /\ (op = "reboot" /\ Len(sent) > 3) =>
          /\ given.target = "triforce"
          /\ SubSeq(sent, 4, Len(sent)) = SubSeq(ExpectedPokes(given.version), 1, Len(sent) - 3)
    /\ RebootReturned =>
          Len(sent) = 3 + (IF given.target = "triforce" THEN Len(ExpectedPokes(given.version)) ELSE 0)

\* info() reported 1.07 to a facade built for a Triforce 3.01, and the
\* reboot after it made the one poke of 3.01
C23_Witness ==
    /\ RebootReturned
    /\ told = "1.07"
    /\ given = [target |-> "triforce", version |-> "3.01"]
    /\ Len(sent) = 4


(***************************************************************************)
(* The settings editor.                                                    *)
(***************************************************************************)
\* the inputs of a settings component that have focus
Focused(inps) == {i \in 1..Len(inps) : inps[i].focus}

\* the one input of inps that has focus
FocusOf(inps) == CHOOSE i \in Focused(inps) : TRUE

\* C24: the editor writes to the caller's settings only after Yes in the
\* quit dialog.  While run() is editing, and after it was left through No,
\* the caller's settings are what they were before run(); Cancel removes
\* the dialog and nothing else, the editor goes on with its edits; after
\* Yes each of the caller's settings has the current value of the edited
\* setting of the same name, and nothing else of it has changed.
C24_OnlyYesWrites ==
    /\ loop \in {"running", "exited"} => settings = before
    /\ last.event = "No" => (~context.saved /\ settings = before /\ loop # "running")
    /\ last.event = "Cancel" =>
          /\ loop = "running" /\ ~dialog /\ last.dialog
          /\ context.settings = last.settings
          /\ inputs = last.inputs /\ selected = last.selected
          /\ ~context.saved /\ settings = before
    /\ (loop = "returned" /\ last.event = "Yes") =>
          \A t \in Tabs : \A p \in 1..Len(settings[t]) :
              /\ settings[t][p] = [before[t][p] EXCEPT !.current = settings[t][p].current]
              /\ \E q \in 1..Len(context.settings[t]) :
                    /\ context.settings[t][q].name = settings[t][p].name
                    /\ context.settings[t][q].current = settings[t][p].current

\* run() returned after Yes and the caller's settings have changed in both
\* groups
C24_Witness ==
    /\ loop = "returned"
    /\ last.event = "Yes"
    /\ settings[1] # before[1]
    /\ settings[2] # before[2]

\* C25: in a settings component exactly one input has focus after any UP,
\* DOWN and click; UP with the focus on the first input and DOWN with the
\* focus on the last leave it there, otherwise UP moves it to the input
\* before and DOWN to the input after.
C25_OneFocus ==
    loop # "none" =>
        /\ \A t \in Tabs : Cardinality(Focused(inputs[t])) = 1
        /\ last.event = "UP" =>
              \A t \in last.to :
                  FocusOf(inputs[t]) = IF FocusOf(last.inputs[t]) = 1 THEN 1
                                       ELSE FocusOf(last.inputs[t]) - 1
        /\ last.event = "DOWN" =>
              \A t \in last.to :
                  FocusOf(inputs[t]) = IF FocusOf(last.inputs[t]) = Len(inputs[t])
                                       THEN Len(inputs[t])
                                       ELSE FocusOf(last.inputs[t]) + 1

\* DOWN was pressed with the focus on the last of three inputs
C25_Witness ==
    /\ last.event = "DOWN"
    /\ \E t \in last.to :
          /\ Len(inputs[t]) = 3
          /\ FocusOf(last.inputs[t]) = 3
          /\ FocusOf(inputs[t]) = 3

\* C26: in the tab component the selected index is within 0..tabs - 1, TAB
\* moves it on by one and from the last tab to the first, the button of the
\* selected tab and no other is inverted, and an event that is not TAB
\* reaches, besides the buttons, the content of the selected tab only: the
\* inputs and settings of any other tab are as the event found them.
C26_TabSelection ==
    loop # "none" =>
        /\ selected \in 0..(Cardinality(Tabs) - 1)
        /\ \A t \in Tabs : invert[t] <=> (t - 1 = selected)
        /\ last.event = "TAB" =>
              selected = IF last.selected = Cardinality(Tabs) - 1 THEN 0
                         ELSE last.selected + 1
        /\ last.event # "none" =>
              /\ last.to \subseteq {last.selected + 1}
              /\ \A t \in Tabs \ {last.selected + 1} :
                    /\ inputs[t] = last.inputs[t]
                    /\ context.settings[t] = last.settings[t]

\* TAB went from the last tab to the first after a setting of the last tab
\* was edited
C26_Witness ==
    /\ last.event = "TAB"
    /\ last.selected = 1
    /\ selected = 0
    /\ context.settings[2] # before[2]
    /\ context.settings[1] = before[1]

====
